---- MODULE Spec2Model ----
(***************************************************************************)
(* A model of redeye.py (RedEye Nmap Scanner): the startup dependency      *)
(* check, the main menu loop with its sub-menus, the session-scoped        *)
(* process runner, and the non-interactive dependency helper               *)
(* (ensure_tools / attempt_install / detect_os).                           *)
(*                                                                         *)
(* A Python str is modelled as a sequence of tokens (TLA+ strings), so     *)
(* that "" is <<>>, concatenation is \o, and strip / split / endswith /    *)
(* replace / os.path.join are computed on the tokens.  A token is an       *)
(* atomic piece of text: " " is whitespace, "/" the path separator,        *)
(* ".xml" / ".nmap" / ".html" the extensions.  The OS descriptor is        *)
(* modelled one character per token, so that `in` is a substring search.   *)
(***************************************************************************)
EXTENDS Integers, Sequences, FiniteSets, TLC

VARIABLES
    pc,               \* where the program is: "setup"; "main:top", "adv:top", "helper:top"
                      \* (the top of a menu loop) and "main", "adv", "helper" (the menu is
                      \* shown and awaits a choice); "deps:*" (the dependency helper); "exit"
    exit_code,        \* the process's exit status once pc = "exit", else -1
    path,             \* the executables shutil.which finds on the search path
    dep_i,            \* setup_environment: index of the dependency being checked
    all_deps_met,     \* setup_environment: local flag
    package_name,     \* install_dependency: the package it last resolved (None before)
    checked,          \* setup_environment: what the last check_tool_installed of each
                      \* dependency handled so far returned, "found" or "missing"
    current_target,   \* main(): loop-local state
    current_ports,
    current_session,
    clock,            \* the wall clock, in seconds (index into Stamp)
    files,            \* paths of the regular files on disk
    dirs,             \* paths of the directories on disk
    choice,           \* the last menu input read (after strip in main)
    launched,         \* argv of the child process the last step launched; <<>> if none
    out,              \* the messages the last step printed, in order
    prompts,          \* the prompts the last step issued after the menu choice, in order,
                      \* each with the answer typed
    cmd_in,           \* the argument list the last step passed to run_command; <<>> if none
    child,            \* what became of the child process of the last step: "none" (no
                      \* child), "started" (it ran until it exited), "failed" (it could
                      \* not be started), "interrupted" (Ctrl-C while it ran)
    env,              \* dependency helper: termux marker, OS descriptor, root
    dstate            \* dependency helper: locals of ensure_tools / attempt_install

vars == <<pc, exit_code, path, dep_i, all_deps_met, package_name, checked, current_target,
          current_ports, current_session, clock, files, dirs, choice, launched,
          out, prompts, cmd_in, child, env, dstate>>

mainVars == <<current_target, current_ports, current_session>>
setupVars == <<dep_i, all_deps_met, package_name, checked>>
depsVars == <<env, dstate>>

-----------------------------------------------------------------------------
(* Bounds of the model *)

MaxScans == 2       \* scan output pairs the disk holds before nmap fails to write more

-----------------------------------------------------------------------------
(* Python values *)

\* None: a value different from every str the inputs can produce.
None == <<"<None>">>

\* A str made of one token.
S(t) == <<t>>

\* bool(x) for a str-or-None.
Truthy(x) == x # None /\ x # <<>>

Range(s) == {s[i] : i \in 1..Len(s)}

Last(s) == s[Len(s)]

\* str.strip(): leading and trailing whitespace removed.
RECURSIVE LStrip(_)
LStrip(s) == IF s # <<>> /\ Head(s) = " " THEN LStrip(Tail(s)) ELSE s

RECURSIVE RStrip(_)
RStrip(s) == IF s # <<>> /\ Last(s) = " " THEN RStrip(SubSeq(s, 1, Len(s) - 1)) ELSE s

Strip(s) == RStrip(LStrip(s))

\* str.lower() on the tokens the inputs use.
LowerTok(t) ==
    CASE t = "NMAP" -> "nmap"
      [] t = "Nmap" -> "nmap"
      [] t = "YES" -> "yes"
      [] t = "Yes" -> "yes"
      [] t = "Y" -> "y"
      [] t = "U" -> "u"
      [] t = "I" -> "i"
      [] t = "D" -> "d"
      [] t = "L" -> "l"
      [] t = "K" -> "k"
      [] t = "E" -> "e"
      [] t = "A" -> "a"
      [] t = "R" -> "r"
      [] t = "H" -> "h"
      [] t = "N" -> "n"
      [] t = "M" -> "m"
      [] OTHER -> t

Lower(s) == [i \in 1..Len(s) |-> LowerTok(s[i])]

\* str.startswith / str.endswith
StartsWith(s, p) == Len(s) >= Len(p) /\ SubSeq(s, 1, Len(p)) = p

EndsWith(s, p) == Len(s) >= Len(p) /\ SubSeq(s, Len(s) - Len(p) + 1, Len(s)) = p

\* str.split(): the maximal runs of non-whitespace tokens.
RECURSIVE SplitFrom(_, _, _)
SplitFrom(s, cur, acc) ==
    IF s = <<>> THEN (IF cur = <<>> THEN acc ELSE Append(acc, cur))
    ELSE IF Head(s) = " "
         THEN SplitFrom(Tail(s), <<>>, IF cur = <<>> THEN acc ELSE Append(acc, cur))
         ELSE SplitFrom(Tail(s), Append(cur, Head(s)), acc)

Split(s) == SplitFrom(s, <<>>, <<>>)

\* needle in haystack, for str: a contiguous run of tokens.
Contains(hay, needle) ==
    \E i \in 1..(Len(hay) - Len(needle) + 1) : SubSeq(hay, i, i + Len(needle) - 1) = needle

\* os.path.join(a, b) on POSIX: an absolute b discards a.
PathJoin(a, b) ==
    IF b # <<>> /\ Head(b) = "/" THEN b
    ELSE IF a = <<>> \/ Last(a) = "/" THEN a \o b
    ELSE a \o <<"/">> \o b

\* The directory part and the final component of a path.
RECURSIVE LastSep(_)
LastSep(p) == IF p = <<>> THEN 0 ELSE IF Last(p) = "/" THEN Len(p) ELSE LastSep(SubSeq(p, 1, Len(p) - 1))

Dirname(p) == IF LastSep(p) = 0 THEN <<>> ELSE SubSeq(p, 1, LastSep(p) - 1)

Basename(p) == SubSeq(p, LastSep(p) + 1, Len(p))

-----------------------------------------------------------------------------
(* Paths as the file system resolves them *)

\* The components of a path: the runs of tokens between separators.
RECURSIVE ComponentsFrom(_, _, _)
ComponentsFrom(p, cur, acc) ==
    IF p = <<>> THEN (IF cur = <<>> THEN acc ELSE Append(acc, cur))
    ELSE IF Head(p) = "/"
         THEN ComponentsFrom(Tail(p), <<>>, IF cur = <<>> THEN acc ELSE Append(acc, cur))
         ELSE ComponentsFrom(Tail(p), Append(cur, Head(p)), acc)

Components(p) == ComponentsFrom(p, <<>>, <<>>)

IsAbsolute(p) == p # <<>> /\ Head(p) = "/"

\* The components left once "." is dropped and ".." has taken back the
\* component before it; ".." at the root of an absolute path is dropped, at
\* the start of a relative path it stays.
RECURSIVE Collapse(_, _, _)
Collapse(comps, absolute, acc) ==
    IF comps = <<>> THEN acc
    ELSE LET c == Head(comps)
         IN  IF c = <<".">> THEN Collapse(Tail(comps), absolute, acc)
             ELSE IF c = <<"..">>
             THEN (IF acc # <<>> /\ Last(acc) # <<"..">>
                   THEN Collapse(Tail(comps), absolute, SubSeq(acc, 1, Len(acc) - 1))
                   ELSE IF absolute THEN Collapse(Tail(comps), absolute, acc)
                   ELSE Collapse(Tail(comps), absolute, Append(acc, c)))
             ELSE Collapse(Tail(comps), absolute, Append(acc, c))

RECURSIVE JoinComponents(_)
JoinComponents(comps) ==
    IF comps = <<>> THEN <<>>
    ELSE IF Len(comps) = 1 THEN Head(comps)
    ELSE Head(comps) \o <<"/">> \o JoinComponents(Tail(comps))

\* The directory a path names for the process, whose working directory
\* holds the sessions root: two paths name the same directory exactly when
\* they resolve to the same text.
Resolve(p) ==
    LET comps == Collapse(Components(p), IsAbsolute(p), <<>>)
    IN  IF IsAbsolute(p) THEN <<"/">> \o JoinComponents(comps)
        ELSE IF comps = <<>> THEN <<".">>
        ELSE JoinComponents(comps)

\* line 459 against a call that creates nothing
MadeDirs_Nothing(p) == {}

\* The directories os.makedirs(p, exist_ok=True) leaves in existence: p and
\* the directories above it.
MadeDirs(p) ==
    LET comps == Collapse(Components(p), IsAbsolute(p), <<>>)
    IN  {Resolve(p)}
        \cup {Resolve((IF IsAbsolute(p) THEN <<"/">> ELSE <<>>)
                      \o JoinComponents(SubSeq(comps, 1, n))) : n \in 1..Len(comps)}

-----------------------------------------------------------------------------
(* Constants of the program *)

REQUIRED == <<S("nmap"), S("ndiff"), S("xsltproc")>>

SESSIONS_DIR == <<"redeye_sessions">>

\* datetime.now().strftime("%Y-%m-%d_%H-%M-%S") for the seconds a run spans:
\* fixed width, so the text order is the time order.
Stamp == <<"2026-11-01_10-00-00", "2026-11-01_10-00-01">>

\* The order of the tokens file names are made of, as Python compares str.
TokenOrder == <<".html", ".nmap", ".xml">> \o Stamp \o <<"notes", "scan_">>

TokRank(t) == CHOOSE i \in 1..Len(TokenOrder) : TokenOrder[i] = t

\* a < b for two file names (lexicographic, a proper prefix first).
RECURSIVE NameLess(_, _)
NameLess(a, b) ==
    IF b = <<>> THEN FALSE
    ELSE IF a = <<>> THEN TRUE
    ELSE IF Head(a) = Head(b) THEN NameLess(Tail(a), Tail(b))
    ELSE TokRank(Head(a)) < TokRank(Head(b))

\* sorted(names)
RECURSIVE Sorted(_)
Sorted(names) ==
    IF names = {} THEN <<>>
    ELSE LET m == CHOOSE x \in names : \A y \in names \ {x} : NameLess(x, y)
         IN  <<m>> \o Sorted(names \ {m})

-----------------------------------------------------------------------------
(* Process Runner: run_command *)

NoLaunch == <<>>

NoCommand == <<>>

\* A prompt and the answer typed at it.
Asked(prompt, typed) == [ask |-> prompt, typed |-> typed]

\* IsNmapScan with the list-scan test of line 420 forgotten.
IsNmapScan_ForgetsListScan(command) ==
    /\ command[1] = S("nmap")
    /\ S("-sn") \notin Range(command)

\* line 420
IsNmapScan(command) ==
    /\ command[1] = S("nmap")
    /\ S("-sn") \notin Range(command)
    /\ S("-sL") \notin Range(command)

\* lines 424-425, for the timestamp read at second t
BaseFilename(session, t) ==
    PathJoin(PathJoin(SESSIONS_DIR, session), <<"scan_", Stamp[t]>>)

\* lines 422-428: the argument list handed to Popen
CommandWithOutput(command, session, t) ==
    IF Truthy(session) /\ IsNmapScan(command)
    THEN command \o <<S("-oN"), BaseFilename(session, t) \o <<".nmap">>,
                      S("-oX"), BaseFilename(session, t) \o <<".xml">> >>
    ELSE command

\* The files an nmap child writes: the arguments of its -oN and -oX options.
OutputFiles(argv) ==
    {argv[i + 1] : i \in {j \in 1..(Len(argv) - 1) : argv[j] \in {S("-oN"), S("-oX")}}}

\* Whether the disk has room for the files argv names.
HasRoom(argv) ==
    \/ OutputFiles(argv) \subseteq files
    \/ Cardinality({f \in files : EndsWith(f, S(".xml"))}) < MaxScans

\* lines 415-444.  Popen either starts the child, whose output is streamed
\* until it exits, or raises (binary not found, ...), which is caught and
\* reported here.  A started nmap writes its output files if the disk has
\* room for them.
run_command(command, session, before) ==
    LET argv == CommandWithOutput(command, session, clock)
        saved == Truthy(session) /\ IsNmapScan(command)
    IN  /\ launched' = argv
        /\ cmd_in' = command
        /\ \E started \in BOOLEAN :
             IF started
             THEN /\ child' = "started"
                  /\ out' = before \o <<"Executing", "Command finished.">>
                              \o (IF saved THEN <<"Results saved in">> ELSE <<>>)
                  /\ files' = IF HasRoom(argv) THEN files \cup OutputFiles(argv) ELSE files
             ELSE /\ child' = "failed"
                  /\ out' = before \o <<"Executing", "An error occurred">>
                  /\ files' = files

-----------------------------------------------------------------------------
(* Session Store: set_session, list_files_in_session *)

\* os.listdir(d): the names of the files directly in d.
ListDir(d) == {Basename(p) : p \in {q \in files : Dirname(q) = d}}

\* lines 466-481: the returned list
list_files_in_session(session, extension) ==
    LET session_path == PathJoin(SESSIONS_DIR, session)
    IN  IF session_path \notin dirs THEN <<>>
        ELSE Sorted({f \in ListDir(session_path) : EndsWith(f, extension)})

\* lines 466-481: what it prints
list_files_messages(session, extension) ==
    LET session_path == PathJoin(SESSIONS_DIR, session)
    IN  IF session_path \notin dirs THEN <<"Session directory not found.">>
        ELSE IF list_files_in_session(session, extension) = <<>>
             THEN <<"No files found in session">>
             ELSE <<"Available files">>

-----------------------------------------------------------------------------
(* Reporting: the parsing and indexing compare_scans and generate_report use *)

\* The integers a selection can denote.
IntRange == (0 - (MaxScans + 2))..(MaxScans + 2)

\* int(s) succeeds: surrounding whitespace is ignored, the rest is a numeral.
IsInt(s) == Len(Strip(s)) = 1 /\ \E n \in IntRange : ToString(n) = Strip(s)[1]

IntOf(s) == CHOOSE n \in IntRange : ToString(n) = Strip(s)[1]

\* list[k] for a Python list: negative k counts from the end; otherwise IndexError.
IndexOk(list, k) == (0 - Len(list)) <= k /\ k < Len(list)

Index(list, k) == IF k >= 0 THEN list[k + 1] ELSE list[Len(list) + k + 1]

\* str.replace('.xml', '.html'): every occurrence.
ReplaceXml(p) == [i \in 1..Len(p) |-> IF p[i] = ".xml" THEN ".html" ELSE p[i]]

-----------------------------------------------------------------------------
(* Menu / Command Builder: the argument lists *)

\* lines 636, 765: ['-p', ports] if ports else []
port_args(ports) == IF Truthy(ports) THEN <<S("-p"), ports>> ELSE <<>>

\* (port_args if ports else default)
ports_or(ports, default) == IF Truthy(ports) THEN port_args(ports) ELSE default

\* lines 762-775: the basic scans of the main menu
BasicCommand(c, target, ports) ==
    CASE c = S("3") -> <<S("nmap"), S("-sn"), target>>
      [] c = S("4") -> <<S("nmap"), S("-A"), S("-T4")>> \o port_args(ports) \o <<target>>
      [] c = S("5") -> <<S("nmap"), S("-F"), S("-T4")>> \o port_args(ports) \o <<target>>
      [] c = S("6") -> <<S("nmap"), S("-sC")>> \o port_args(ports) \o <<target>>
      [] c = S("7") -> <<S("nmap"), S("--script"), S("vuln"), S("-sV")>> \o port_args(ports) \o <<target>>

\* The advanced choices that build a command without a further prompt.
AdvancedDirect ==
    {S(ToString(n)) : n \in (1..20) \ {5, 15}}

\* line 671 against a test that only refuses the answer 'no'
Confirmed_UnlessNo(sure) == Lower(sure) # S("no")

\* line 671: the answer to the confirmation prompt, compared after lower()
Confirmed(sure) == Lower(sure) = S("yes")

\* lines 638-683: command_list for an advanced choice; zombie and sure are
\* the answers to the prompts of choices 5 and 15.
AdvancedCommand(c, target, ports, zombie, sure) ==
    CASE c = S("1") -> <<S("sudo"), S("nmap"), S("-sn"), S("-PE"), S("-PS22,80,443"),
                         S("-PA80,443"), S("-PU53"), S("-T4"), target>>
      [] c = S("2") -> <<S("sudo"), S("nmap"), S("-Pn"), S("-sS"), S("-T4")>>
                         \o ports_or(ports, <<S("-p-")>>) \o <<target>>
      [] c = S("3") -> <<S("sudo"), S("nmap"), S("-f"), S("-sS"), S("-T4")>>
                         \o port_args(ports) \o <<target>>
      [] c = S("4") -> <<S("sudo"), S("nmap"), S("-D"), S("RND:10"), S("-sS"), S("-T4")>>
                         \o port_args(ports) \o <<target>>
      [] c = S("5") -> IF zombie # <<>>
                       THEN <<S("sudo"), S("nmap"), S("-Pn"), S("-sI"), zombie>>
                              \o port_args(ports) \o <<target>>
                       ELSE NoCommand
      [] c = S("6") -> <<S("nmap"), S("--script"), S("http-enum,http-title,http-vuln*"),
                         S("-sV"), S("-T4")>>
                         \o ports_or(ports, <<S("-p"), S("80,443")>>) \o <<target>>
      [] c = S("7") -> <<S("nmap"), S("--script"), S("smb-vuln*"), S("-sV"), S("-T4")>>
                         \o ports_or(ports, <<S("-p"), S("139,445")>>) \o <<target>>
      [] c = S("8") -> <<S("nmap"), S("--script"), S("ftp-anon,ftp-vuln*"), S("-sV"), S("-T4")>>
                         \o ports_or(ports, <<S("-p"), S("21")>>) \o <<target>>
      [] c = S("9") -> <<S("nmap"), S("--script"), S("mysql-empty-password,mysql-vuln*"),
                         S("-sV"), S("-T4")>>
                         \o ports_or(ports, <<S("-p"), S("3306")>>) \o <<target>>
      [] c = S("10") -> <<S("nmap"), S("--script"), S("ssl-heartbleed"), S("-sV")>>
                         \o ports_or(ports, <<S("-p"), S("443")>>) \o <<target>>
      [] c = S("11") -> <<S("nmap"), S("--script"), S("http-waf-detect,http-waf-fingerprint"),
                          S("-T4")>>
                         \o ports_or(ports, <<S("-p"), S("80,443")>>) \o <<target>>
      [] c = S("12") -> <<S("nmap"), S("--script"), S("http-slowloris-check"), S("-T4")>>
                         \o port_args(ports) \o <<target>>
      [] c = S("13") -> <<S("sudo"), S("nmap"), S("-sS"), S("-sU"), S("-T4")>>
                         \o ports_or(ports, <<S("-p"), S("T:-,U:1-4000")>>) \o <<target>>
      [] c = S("14") -> <<S("nmap"), S("-sV"), S("-sC"), S("--script"), S("\"not intrusive\"")>>
                         \o port_args(ports) \o <<target>>
      [] c = S("15") -> IF Confirmed(sure)
                        THEN <<S("sudo"), S("nmap"), S("-sV"), S("--script"), S("exploit"),
                               S("-T4")>> \o port_args(ports) \o <<target>>
                        ELSE NoCommand
      [] c = S("16") -> <<S("nmap"), S("-sV"), S("--script"), S("auth"), S("-T4")>>
                         \o port_args(ports) \o <<target>>
      [] c = S("17") -> <<S("nmap"), S("--traceroute"), S("--script"),
                          S("traceroute-geolocation"), S("-T4")>>
                         \o ports_or(ports, <<S("-p"), S("80")>>) \o <<target>>
      [] c = S("18") -> <<S("sudo"), S("nmap"), S("-A"), S("-p-"), S("-T4")>>
                         \o port_args(ports) \o <<target>>
      [] c = S("19") -> <<S("nmap"), S("-sn"), S("-T4"), target>>
      [] c = S("20") -> <<S("sudo"), S("nmap"), S("-O"), S("-T4")>>
                         \o ports_or(ports, <<S("-p-")>>) \o <<target>>
      [] OTHER -> NoCommand

\* scan_choices with the advanced menu left out of the gate.
scan_choices_without_advanced == {S("3"), S("4"), S("5"), S("6"), S("7")}

\* line 748
scan_choices == {S("3"), S("4"), S("5"), S("6"), S("7"), S("11")}

\* lines 750-794: the branch of the if/elif chain that a choice takes
MainBranch(c, target) ==
    IF c = S("1") THEN "set_target"
    ELSE IF c = S("2") THEN "set_ports"
    ELSE IF c = S("8") THEN "set_session"
    ELSE IF c \in scan_choices /\ ~Truthy(target) THEN "no_target"
    ELSE IF c \in {S("3"), S("4"), S("5"), S("6"), S("7")} THEN "basic_scan"
    ELSE IF c = S("9") THEN "compare"
    ELSE IF c = S("10") THEN "report"
    ELSE IF c = S("11") THEN "advanced"
    ELSE IF c = S("12") THEN "custom"
    ELSE IF c = S("13") THEN "helper"
    ELSE IF c = S("0") THEN "exit"
    ELSE "invalid"

-----------------------------------------------------------------------------
(* Inputs the user can type *)

MenuInputs == {S(ToString(n)) : n \in 0..13} \cup {S("x"), <<>>, <<" ", "9">>}

AdvancedInputs == {S(ToString(n)) : n \in 0..20} \cup {S("x"), <<" ", "1">>}

HelperInputs == {S("0"), S("1"), S("x")}

Targets == {S("10.0.0.5"), S("scanme.example")}

TargetInputs == Targets \cup {<<>>, <<" ">>}

PortInputs == {S("80"), <<>>}

\* Session names: a plain one, and one with the text '.xml' in it.
SessionNames == {S("alpha"), <<"audit", ".xml">>}

SessionInputs == SessionNames \cup {<<>>, <<" ", "alpha", " ">>}

ZombieInputs == {S("10.0.0.9"), <<>>}

SureInputs == {S("yes"), S("YES"), S("no"), <<>>, <<" ", "yes">>}

SelectionInputs == {S(ToString(n)) : n \in (0 - 1)..(MaxScans + 1)} \cup {S("abc"), <<" ", "1">>}

CustomInputs ==
    { <<"nmap", " ", "-sV", " ", "10.0.0.5">>,
      <<"nmap", " ", "-sL", " ", "10.0.0.5">>,
      <<"NMAP", " ", "-sV", " ", "10.0.0.5">>,
      <<"nmap", " ", "--script", " ", "exploit", " ", "10.0.0.5">>,
      <<"ls", " ", "-l">>,
      <<"nmap">> }

-----------------------------------------------------------------------------
(* Startup dependency check: setup_environment, install_dependency *)

\* line 393
dependencies == <<S("nmap"), S("ndiff"), S("xsltproc")>>

\* shutil.which(name)
Which(name) == name \in path

\* lines 346-361: the manager install_dependency picks, None if unsupported
InstallManager ==
    IF Which(S("apt-get")) THEN S("apt-get")
    ELSE IF Which(S("dnf")) \/ Which(S("yum"))
         THEN (IF Which(S("dnf")) THEN S("dnf") ELSE S("yum"))
         ELSE None

\* lines 349-350 and 356-357: package_map.get(tool_name) under each manager
package_map(manager, tool_name) ==
    IF manager = S("apt-get")
    THEN CASE tool_name = S("nmap") -> S("nmap")
           [] tool_name = S("ndiff") -> S("ndiff")
           [] tool_name = S("xsltproc") -> S("xsltproc")
           [] OTHER -> None
    ELSE CASE tool_name = S("nmap") -> S("nmap")
           [] tool_name = S("ndiff") -> S("ndiff")
           [] tool_name = S("xsltproc") -> S("libxslt")
           [] OTHER -> None

\* lines 351-352, 358
SetupUpdateCmd(manager) ==
    IF manager = S("apt-get") THEN <<S("sudo"), S("apt-get"), S("update")>> ELSE <<>>

SetupInstallCmd(manager, pkg) ==
    IF manager = S("apt-get")
    THEN <<S("sudo"), S("apt-get"), S("install"), S("-y"), pkg>>
    ELSE <<S("sudo"), manager, S("install"), S("-y"), pkg>>

\* What a package-manager run that exits 0 can leave on the search path.
AfterInstall(p) == {p \cup added : added \in SUBSET Range(REQUIRED)}

AnswerInputs == {S("y"), S("YES"), S("n"), <<>>}

\* line 401 against trusting install_dependency's return value
VerifiedAfterInstall_Unchecked(tool, p) == TRUE

\* line 401: the check made again after an install that reported success
VerifiedAfterInstall(tool, p) == tool \in p

\* One iteration of the loop of lines 396-403, for dependencies[dep_i].
SetupStep ==
    /\ pc = "setup"
    /\ dep_i <= Len(dependencies)
    /\ dep_i' = dep_i + 1
    /\ choice' = <<>>
    /\ UNCHANGED <<pc, exit_code, mainVars, clock, files, dirs, depsVars>>
    /\ LET tool == dependencies[dep_i]
           manager == InstallManager
           pkg == package_map(manager, tool)
       IN  IF Which(tool)
           THEN \* check_tool_installed found it
                /\ out' = <<"Found">>
                /\ checked' = Append(checked, "found")
                /\ launched' = NoLaunch /\ cmd_in' = NoCommand /\ child' = "none"
                /\ prompts' = <<>>
                /\ UNCHANGED <<path, all_deps_met, package_name>>
           ELSE IF manager = None
           THEN \* lines 359-361
                /\ out' = <<"Not found.", "Unsupported package manager.">>
                /\ checked' = Append(checked, "missing")
                /\ all_deps_met' = FALSE
                /\ launched' = NoLaunch /\ cmd_in' = NoCommand /\ child' = "none"
                /\ prompts' = <<>>
                /\ UNCHANGED <<path, package_name>>
           ELSE IF pkg = None
           THEN \* lines 363-365
                /\ out' = <<"Not found.", "Could not determine package">>
                /\ checked' = Append(checked, "missing")
                /\ all_deps_met' = FALSE
                /\ package_name' = pkg
                /\ launched' = NoLaunch /\ cmd_in' = NoCommand /\ child' = "none"
                /\ prompts' = <<>>
                /\ UNCHANGED path
           ELSE \E answer \in AnswerInputs :
                /\ package_name' = pkg
                /\ prompts' = <<Asked("Attempt to install?", answer)>>
                /\ IF Lower(answer) \notin {S("y"), S("yes")}
                   THEN \* lines 368-370
                        /\ out' = <<"Not found.", "Installation skipped by user.">>
                        /\ checked' = Append(checked, "missing")
                        /\ all_deps_met' = FALSE
                        /\ launched' = NoLaunch /\ cmd_in' = NoCommand /\ child' = "none"
                        /\ UNCHANGED path
                   ELSE \E update_ok \in BOOLEAN, install_ok \in BOOLEAN :
                        IF SetupUpdateCmd(manager) # <<>> /\ ~update_ok
                        THEN \* line 376 raised
                             /\ install_ok = FALSE
                             /\ launched' = SetupUpdateCmd(manager) /\ cmd_in' = NoCommand
                             /\ child' \in {"started", "failed"}
                             /\ out' = <<"Not found.", "Installation failed">>
                             /\ checked' = Append(checked, "missing")
                             /\ all_deps_met' = FALSE
                             /\ UNCHANGED path
                        ELSE IF ~install_ok
                        THEN \* line 379 raised
                             /\ update_ok = TRUE
                             /\ launched' = SetupInstallCmd(manager, pkg) /\ cmd_in' = NoCommand
                             /\ child' \in {"started", "failed"}
                             /\ out' = <<"Not found.", "Installation failed">>
                             /\ checked' = Append(checked, "missing")
                             /\ all_deps_met' = FALSE
                             /\ UNCHANGED path
                        ELSE \* installed; lines 401-403 check again
                             /\ update_ok = TRUE
                             /\ launched' = SetupInstallCmd(manager, pkg) /\ cmd_in' = NoCommand
                             /\ child' = "started"
                             /\ \E p \in AfterInstall(path) :
                                  /\ path' = p
                                  /\ checked' = Append(checked, IF tool \in p THEN "found"
                                                                 ELSE "missing")
                                  /\ IF VerifiedAfterInstall(tool, p)
                                     THEN /\ out' = <<"Not found.", "Installation successful", "Found">>
                                          /\ UNCHANGED all_deps_met
                                     ELSE /\ out' = <<"Not found.", "Installation successful",
                                                      "Not found.", "Verification failed">>
                                          /\ all_deps_met' = FALSE

\* lines 405-409 and 737: leave setup_environment, create the sessions root
SetupFinish ==
    /\ pc = "setup"
    /\ dep_i > Len(dependencies)
    /\ choice' = <<>>
    /\ launched' = NoLaunch /\ cmd_in' = NoCommand /\ child' = "none"
    /\ prompts' = <<>>
    /\ UNCHANGED <<path, setupVars, mainVars, clock, files, depsVars>>
    /\ IF ~all_deps_met
       THEN /\ pc' = "exit"
            /\ exit_code' = 1
            /\ out' = <<"One or more dependencies could not be installed.">>
            /\ UNCHANGED dirs
       ELSE \E made \in BOOLEAN :
            IF made
            THEN /\ pc' = "main:top"
                 /\ dirs' = dirs \cup {SESSIONS_DIR}
                 /\ out' = <<"All dependencies are met.">>
                 /\ UNCHANGED exit_code
            ELSE \* os.makedirs raised outside the loop's try
                 /\ pc' = "exit"
                 /\ exit_code' = 1
                 /\ out' = <<"All dependencies are met.", "Traceback">>
                 /\ UNCHANGED dirs

-----------------------------------------------------------------------------
(* The main loop: one action per branch of lines 750-794 *)

\* What every main-loop step leaves alone unless it says otherwise.
MainFrame == UNCHANGED <<exit_code, path, setupVars, clock, dirs, depsVars>>

\* lines 750-754
SetTarget ==
    /\ pc = "main"
    /\ \E raw \in MenuInputs, typed \in TargetInputs :
         /\ MainBranch(Strip(raw), current_target) = "set_target"
         /\ choice' = Strip(raw)
         /\ prompts' = <<Asked("Enter target", typed)>>
         /\ IF Strip(typed) = <<>>
            THEN current_target' = None /\ out' = <<"Target cannot be empty.">>
            ELSE current_target' = Strip(typed) /\ out' = <<>>
    /\ launched' = NoLaunch /\ cmd_in' = NoCommand /\ child' = "none"
    /\ MainFrame
    /\ pc' = "main:top"
    /\ UNCHANGED <<current_ports, current_session, files>>

\* lines 755-757
SetPorts ==
    /\ pc = "main"
    /\ \E raw \in MenuInputs, typed \in PortInputs :
         /\ MainBranch(Strip(raw), current_target) = "set_ports"
         /\ choice' = Strip(raw)
         /\ current_ports' = IF Strip(typed) # <<>> THEN Strip(typed) ELSE None
         /\ prompts' = <<Asked("Enter custom ports", typed)>>
    /\ out' = <<>>
    /\ launched' = NoLaunch /\ cmd_in' = NoCommand /\ child' = "none"
    /\ MainFrame
    /\ pc' = "main:top"
    /\ UNCHANGED <<current_target, current_session, files>>

\* lines 758-759 with set_session, lines 450-464
SetSessionFrom(inputs) ==
    /\ pc = "main"
    /\ \E raw \in MenuInputs, typed \in inputs, made \in BOOLEAN :
         /\ MainBranch(Strip(raw), current_target) = "set_session"
         /\ choice' = Strip(raw)
         /\ prompts' = <<Asked("Enter session name", typed)>>
         /\ LET session_name == Strip(typed)
                session_path == PathJoin(SESSIONS_DIR, session_name)
            IN  IF session_name = <<>>
                THEN /\ made = FALSE
                     /\ out' = <<"Session name cannot be empty.">>
                     /\ current_session' = None
                     /\ UNCHANGED dirs
                ELSE IF made \/ Resolve(session_path) \in dirs
                THEN /\ made = TRUE
                     /\ dirs' = dirs \cup MadeDirs(session_path)
                     /\ out' = <<"Session is active.">>
                     /\ current_session' = session_name
                ELSE /\ out' = <<"Failed to create session directory">>
                     /\ current_session' = None
                     /\ UNCHANGED dirs
    /\ launched' = NoLaunch /\ cmd_in' = NoCommand /\ child' = "none"
    /\ pc' = "main:top"
    /\ UNCHANGED <<exit_code, path, setupVars, clock, depsVars>>
    /\ UNCHANGED <<current_target, current_ports, files>>

SetSession == SetSessionFrom(SessionInputs)

\* lines 760-761
RefuseNoTarget ==
    /\ pc = "main"
    /\ \E raw \in MenuInputs :
         /\ MainBranch(Strip(raw), current_target) = "no_target"
         /\ choice' = Strip(raw)
    /\ out' = <<"No target has been set.">>
    /\ prompts' = <<>>
    /\ launched' = NoLaunch /\ cmd_in' = NoCommand /\ child' = "none"
    /\ MainFrame
    /\ pc' = "main:top"
    /\ UNCHANGED <<mainVars, files>>

\* lines 762-775
BasicScan ==
    /\ pc = "main"
    /\ \E raw \in MenuInputs :
         /\ MainBranch(Strip(raw), current_target) = "basic_scan"
         /\ choice' = Strip(raw)
         /\ run_command(BasicCommand(Strip(raw), current_target, current_ports),
                        current_session, <<>>)
    /\ prompts' = <<>>
    /\ MainFrame
    /\ pc' = "main:top"
    /\ UNCHANGED mainVars

\* TooFewToCompare with the threshold of line 494 off by one.
TooFewToCompare_OffByOne(xml_files) == Len(xml_files) < 1

\* line 494: too few structured-output files to compare
TooFewToCompare(xml_files) == Len(xml_files) < 2

\* lines 776-777 with compare_scans, lines 487-507
CompareScans ==
    /\ pc = "main"
    /\ \E raw \in MenuInputs :
         /\ MainBranch(Strip(raw), current_target) = "compare"
         /\ choice' = Strip(raw)
    /\ MainFrame
    /\ pc' = "main:top"
    /\ UNCHANGED mainVars
    /\ IF ~Truthy(current_session)
       THEN /\ out' = <<"Please set a session first">>
            /\ prompts' = <<>>
            /\ launched' = NoLaunch /\ cmd_in' = NoCommand /\ child' = "none"
            /\ UNCHANGED files
       ELSE LET xml_files == list_files_in_session(current_session, S(".xml"))
                listed == list_files_messages(current_session, S(".xml"))
            IN  IF TooFewToCompare(xml_files)
                THEN /\ out' = listed \o <<"You need at least two XML scans">>
                     /\ prompts' = <<>>
                     /\ launched' = NoLaunch /\ cmd_in' = NoCommand /\ child' = "none"
                     /\ UNCHANGED files
                ELSE \E in1 \in SelectionInputs, in2 \in SelectionInputs :
                     IF ~IsInt(in1)
                     THEN \* ValueError at line 499
                          /\ in2 = <<>>
                          /\ prompts' = <<Asked("Select the first file", in1)>>
                          /\ out' = listed \o <<"Invalid selection.">>
                          /\ launched' = NoLaunch /\ cmd_in' = NoCommand /\ child' = "none"
                          /\ UNCHANGED files
                     ELSE IF \/ ~IsInt(in2)
                             \/ ~IndexOk(xml_files, IntOf(in1) - 1)
                             \/ ~IndexOk(xml_files, IntOf(in2) - 1)
                     THEN \* ValueError at line 500, IndexError at 502-503
                          /\ prompts' = <<Asked("Select the first file", in1),
                                          Asked("Select the second file", in2)>>
                          /\ out' = listed \o <<"Invalid selection.">>
                          /\ launched' = NoLaunch /\ cmd_in' = NoCommand /\ child' = "none"
                          /\ UNCHANGED files
                     ELSE /\ prompts' = <<Asked("Select the first file", in1),
                                          Asked("Select the second file", in2)>>
                          /\ run_command(
                               <<S("ndiff"),
                                 PathJoin(PathJoin(SESSIONS_DIR, current_session),
                                          Index(xml_files, IntOf(in1) - 1)),
                                 PathJoin(PathJoin(SESSIONS_DIR, current_session),
                                          Index(xml_files, IntOf(in2) - 1))>>,
                               None, listed)


\* lines 799-800 against a handler that prints nothing
UnexpectedError_Silent(before) == before

\* lines 799-800: what the console shows once main's `except Exception` has
\* caught an exception raised after `before` was printed
UnexpectedError(before) == before \o <<"An unexpected error occurred">>

\* lines 778-779 with generate_report, lines 509-538.  subprocess.run either
\* returns with an exit status or raises (xsltproc not found), which only
\* main's `except Exception` catches.
GenerateReport ==
    /\ pc = "main"
    /\ \E raw \in MenuInputs :
         /\ MainBranch(Strip(raw), current_target) = "report"
         /\ choice' = Strip(raw)
    /\ MainFrame
    /\ pc' = "main:top"
    /\ UNCHANGED mainVars
    /\ IF ~Truthy(current_session)
       THEN /\ out' = <<"Please set a session first">>
            /\ prompts' = <<>>
            /\ launched' = NoLaunch /\ cmd_in' = NoCommand /\ child' = "none"
            /\ UNCHANGED files
       ELSE LET xml_files == list_files_in_session(current_session, S(".xml"))
                listed == list_files_messages(current_session, S(".xml"))
            IN  IF xml_files = <<>>
                THEN /\ out' = listed
                     /\ prompts' = <<>>
                     /\ launched' = NoLaunch /\ cmd_in' = NoCommand /\ child' = "none"
                     /\ UNCHANGED files
                ELSE \E in1 \in SelectionInputs, result \in {"zero", "nonzero", "raised"} :
                     /\ prompts' = <<Asked("Select the XML file", in1)>>
                     /\ IF ~IsInt(in1) \/ ~IndexOk(xml_files, IntOf(in1) - 1)
                        THEN \* ValueError at line 520, IndexError at line 521
                             /\ result = "zero"
                             /\ out' = listed \o <<"Invalid selection.">>
                             /\ launched' = NoLaunch /\ cmd_in' = NoCommand /\ child' = "none"
                             /\ UNCHANGED files
                        ELSE LET xml_path == PathJoin(PathJoin(SESSIONS_DIR, current_session),
                                                      Index(xml_files, IntOf(in1) - 1))
                                 html_path == ReplaceXml(xml_path)
                             IN  /\ launched' = <<S("xsltproc"), S("-o"), html_path, xml_path>>
                                 /\ cmd_in' = NoCommand
                                 /\ child' = IF result = "raised" THEN "failed" ELSE "started"
                                 /\ CASE result = "zero" ->
                                           \* xsltproc can write only into a directory that exists
                                           /\ Resolve(Dirname(html_path)) \in dirs
                                           /\ out' = listed \o <<"Generating HTML report...",
                                                                 "Successfully generated HTML report">>
                                           /\ files' = files \cup {html_path}
                                      [] result = "nonzero" ->
                                           /\ out' = listed \o <<"Generating HTML report...",
                                                                 "Error generating report">>
                                           /\ UNCHANGED files
                                      [] result = "raised" ->
                                           /\ out' = UnexpectedError(
                                                        listed \o <<"Generating HTML report...">>)
                                           /\ UNCHANGED files

\* lines 780-781: enter show_advanced_scans
EnterAdvanced ==
    /\ pc = "main"
    /\ \E raw \in MenuInputs :
         /\ MainBranch(Strip(raw), current_target) = "advanced"
         /\ choice' = Strip(raw)
    /\ pc' = "adv:top"
    /\ out' = <<>>
    /\ prompts' = <<>>
    /\ launched' = NoLaunch /\ cmd_in' = NoCommand /\ child' = "none"
    /\ MainFrame
    /\ UNCHANGED <<mainVars, files>>

\* lines 782-787
CustomCommand ==
    /\ pc = "main"
    /\ \E raw \in MenuInputs, custom_cmd_str \in CustomInputs :
         /\ MainBranch(Strip(raw), current_target) = "custom"
         /\ choice' = Strip(raw)
         /\ IF StartsWith(Strip(Lower(custom_cmd_str)), <<"nmap", " ">>)
            THEN run_command(Split(custom_cmd_str), current_session, <<>>)
            ELSE /\ out' = <<"Invalid command. It must start with 'nmap '.">>
                 /\ launched' = NoLaunch /\ cmd_in' = NoCommand /\ child' = "none"
                 /\ UNCHANGED files
         /\ prompts' = <<Asked("Enter full nmap command", custom_cmd_str)>>
    /\ MainFrame
    /\ pc' = "main:top"
    /\ UNCHANGED mainVars

\* lines 788-789: enter show_helper
ShowHelper ==
    /\ pc = "main"
    /\ \E raw \in MenuInputs :
         /\ MainBranch(Strip(raw), current_target) = "helper"
         /\ choice' = Strip(raw)
    /\ pc' = "helper:top"
    /\ out' = <<>>
    /\ prompts' = <<>>
    /\ launched' = NoLaunch /\ cmd_in' = NoCommand /\ child' = "none"
    /\ MainFrame
    /\ UNCHANGED <<mainVars, files>>

\* lines 790-792: break; main returns and the process ends with status 0
ExitChoice ==
    /\ pc = "main"
    /\ \E raw \in MenuInputs :
         /\ MainBranch(Strip(raw), current_target) = "exit"
         /\ choice' = Strip(raw)
    /\ pc' = "exit"
    /\ exit_code' = 0
    /\ out' = <<"Exiting RedEye. Goodbye!">>
    /\ prompts' = <<>>
    /\ launched' = NoLaunch /\ cmd_in' = NoCommand /\ child' = "none"
    /\ UNCHANGED <<path, setupVars, clock, dirs, depsVars, mainVars, files>>

\* lines 793-794
InvalidChoice ==
    /\ pc = "main"
    /\ \E raw \in MenuInputs :
         /\ MainBranch(Strip(raw), current_target) = "invalid"
         /\ choice' = Strip(raw)
    /\ out' = <<"Invalid choice. Please try again.">>
    /\ prompts' = <<>>
    /\ launched' = NoLaunch /\ cmd_in' = NoCommand /\ child' = "none"
    /\ MainFrame
    /\ pc' = "main:top"
    /\ UNCHANGED <<mainVars, files>>

-----------------------------------------------------------------------------
(* show_advanced_scans, lines 601-690; its choice is compared unstripped *)

\* lines 638-683 and 689-690: a choice that names a scan
AdvancedScan ==
    /\ pc = "adv"
    /\ \E c \in AdvancedInputs, zombie \in ZombieInputs, sure \in SureInputs :
         /\ c \in AdvancedDirect \cup {S("5"), S("15")}
         /\ c # S("5") => zombie = <<>>
         /\ c # S("15") => sure = <<>>
         /\ choice' = c
         /\ prompts' = IF c = S("5") THEN <<Asked("Enter Zombie IP", zombie)>>
                       ELSE IF c = S("15") THEN <<Asked("Are you sure?", sure)>> ELSE <<>>
         /\ LET command_list == AdvancedCommand(c, current_target, current_ports, zombie, sure)
            IN  IF command_list # NoCommand
                THEN run_command(command_list, current_session, <<>>)
                ELSE /\ launched' = NoLaunch /\ cmd_in' = NoCommand /\ child' = "none"
                     /\ out' = <<>>
                     /\ UNCHANGED files
    /\ MainFrame
    /\ pc' = "adv:top"
    /\ UNCHANGED mainVars

\* lines 684-685
AdvancedBack ==
    /\ pc = "adv"
    /\ choice' = S("0")
    /\ pc' = "main:top"
    /\ out' = <<>>
    /\ prompts' = <<>>
    /\ launched' = NoLaunch /\ cmd_in' = NoCommand /\ child' = "none"
    /\ MainFrame
    /\ UNCHANGED <<mainVars, files>>

\* lines 686-687
AdvancedInvalid ==
    /\ pc = "adv"
    /\ \E c \in AdvancedInputs :
         /\ c \notin AdvancedDirect \cup {S("5"), S("15"), S("0")}
         /\ choice' = c
    /\ out' = <<"Invalid choice.">>
    /\ prompts' = <<>>
    /\ launched' = NoLaunch /\ cmd_in' = NoCommand /\ child' = "none"
    /\ MainFrame
    /\ pc' = "adv:top"
    /\ UNCHANGED <<mainVars, files>>

-----------------------------------------------------------------------------
(* show_helper, lines 544-598 *)

HelperStep ==
    /\ pc = "helper"
    /\ \E c \in HelperInputs :
         /\ choice' = c
         /\ IF c = S("0")
            THEN pc' = "main:top" /\ out' = <<>>
            ELSE /\ pc' = "helper:top"
                 /\ out' = IF c \in {S(ToString(n)) : n \in 1..7}
                           THEN <<"Helper topic">>
                           ELSE <<"Invalid choice. Please select from the menu.">>
    /\ prompts' = <<>>
    /\ launched' = NoLaunch /\ cmd_in' = NoCommand /\ child' = "none"
    /\ MainFrame
    /\ UNCHANGED <<mainVars, files>>

-----------------------------------------------------------------------------
(* The top of the three `while True` loops (lines 743-746, 603-633,
   546-558): the menu is printed and the next choice is awaited. *)

TopOfLoop ==
    /\ pc \in {"main:top", "adv:top", "helper:top"}
    /\ pc' = CASE pc = "main:top" -> "main"
              [] pc = "adv:top" -> "adv"
              [] pc = "helper:top" -> "helper"
    /\ choice' = <<>>
    /\ launched' = NoLaunch /\ cmd_in' = NoCommand /\ child' = "none"
    /\ out' = <<>>
    /\ prompts' = <<>>
    /\ UNCHANGED <<exit_code, path, setupVars, mainVars, clock, files, dirs, depsVars>>

-----------------------------------------------------------------------------
(* Ctrl-C: KeyboardInterrupt raised in the main thread *)

\* What the terminal shows, and input() delivers, when Ctrl-C is pressed.
CtrlC == <<"^C">>

\* lines 796-798: the handler of main's loop
Cancelled == <<"^C", "Operation cancelled by user. Exiting RedEye.">>

\* What the interpreter prints when the exception reaches the top level.
Traceback == <<"^C", "Traceback (most recent call last):", "KeyboardInterrupt">>

\* The statuses an interpreter ends with on an unhandled KeyboardInterrupt:
\* 1, or 130 where it re-raises SIGINT on itself.
UnhandledInterruptStatus == {1, 130}

\* The first prompt of the handlers of main() that begin with one.
FirstPrompt(branch) ==
    CASE branch = "set_target" -> "Enter target"
      [] branch = "set_ports" -> "Enter custom ports"
      [] branch = "set_session" -> "Enter session name"
      [] branch = "custom" -> "Enter full nmap command"

\* Ctrl-C while a menu waits for the choice (lines 746, 633, 558): nothing
\* in show_advanced_scans or show_helper catches it, main's handler does.
InterruptAtMenu ==
    /\ pc \in {"main", "adv", "helper"}
    /\ pc' = "exit"
    /\ exit_code' = 0
    /\ choice' = CtrlC
    /\ out' = Cancelled
    /\ prompts' = <<>>
    /\ launched' = NoLaunch /\ cmd_in' = NoCommand /\ child' = "none"
    /\ UNCHANGED <<path, setupVars, clock, dirs, depsVars, mainVars, files>>

\* Ctrl-C at the prompt a handler of main() opens with (lines 751, 756, 452,
\* 783): the assignment of the line is not made.
InterruptAtPrompt ==
    /\ pc = "main"
    /\ \E raw \in MenuInputs :
         LET branch == MainBranch(Strip(raw), current_target)
         IN  /\ branch \in {"set_target", "set_ports", "set_session", "custom"}
             /\ choice' = Strip(raw)
             /\ prompts' = <<Asked(FirstPrompt(branch), CtrlC)>>
    /\ pc' = "exit"
    /\ exit_code' = 0
    /\ out' = Cancelled
    /\ launched' = NoLaunch /\ cmd_in' = NoCommand /\ child' = "none"
    /\ UNCHANGED <<path, setupVars, clock, dirs, depsVars, mainVars, files>>

\* Ctrl-C while run_command streams the output of a basic scan (lines
\* 434-437): `except Exception` of line 443 does not catch it, main's handler
\* does.  The child may have written its output files by then.
InterruptChild ==
    /\ pc = "main"
    /\ \E raw \in MenuInputs, written \in BOOLEAN :
         LET command == BasicCommand(Strip(raw), current_target, current_ports)
             argv == CommandWithOutput(command, current_session, clock)
         IN  /\ MainBranch(Strip(raw), current_target) = "basic_scan"
             /\ choice' = Strip(raw)
             /\ launched' = argv
             /\ cmd_in' = command
             /\ files' = IF written /\ HasRoom(argv) THEN files \cup OutputFiles(argv) ELSE files
    /\ child' = "interrupted"
    /\ pc' = "exit"
    /\ exit_code' = 0
    /\ out' = <<"Executing">> \o Cancelled
    /\ prompts' = <<>>
    /\ UNCHANGED <<path, setupVars, clock, dirs, depsVars, mainVars>>

\* Ctrl-C during setup_environment (line 735, before the try of line 744):
\* while a tool is looked up, at the install prompt of line 367, or while
\* the package manager runs (install_dependency catches CalledProcessError
\* and FileNotFoundError only).  Nothing catches it.
SetupInterrupt ==
    /\ pc = "setup"
    /\ dep_i <= Len(dependencies)
    /\ LET tool == dependencies[dep_i]
           manager == InstallManager
           pkg == package_map(manager, tool)
           asks == ~Which(tool) /\ manager # None /\ pkg # None
       IN  \E where \in {"lookup", "prompt", "child"} :
           CASE where = "lookup" ->
                  /\ prompts' = <<>>
                  /\ launched' = NoLaunch /\ cmd_in' = NoCommand /\ child' = "none"
                  /\ UNCHANGED package_name
             [] where = "prompt" ->
                  /\ asks
                  /\ package_name' = pkg
                  /\ prompts' = <<Asked("Attempt to install?", CtrlC)>>
                  /\ launched' = NoLaunch /\ cmd_in' = NoCommand /\ child' = "none"
             [] where = "child" ->
                  /\ asks
                  /\ package_name' = pkg
                  /\ prompts' = <<Asked("Attempt to install?", S("y"))>>
                  /\ launched' = IF SetupUpdateCmd(manager) # <<>>
                                 THEN SetupUpdateCmd(manager)
                                 ELSE SetupInstallCmd(manager, pkg)
                  /\ cmd_in' = NoCommand
                  /\ child' = "interrupted"
    /\ pc' = "exit"
    /\ \E status \in UnhandledInterruptStatus : exit_code' = status
    /\ out' = Traceback
    /\ choice' = <<>>
    /\ UNCHANGED <<path, dep_i, all_deps_met, checked, mainVars, clock, files, dirs, depsVars>>

-----------------------------------------------------------------------------
(* The environment: time passes while the program waits for input *)

Tick ==
    /\ pc \in {"main", "adv"}
    /\ clock < Len(Stamp)
    /\ clock' = clock + 1
    /\ UNCHANGED <<pc, exit_code, path, setupVars, mainVars, files, dirs, choice,
                   launched, out, prompts, cmd_in, child, depsVars>>

-----------------------------------------------------------------------------
(* The dependency helper: environment detection *)

MaxLines == 2       \* lines an OS descriptor (/etc/os-release) holds

\* Lines an /etc/os-release may hold, one character per token.
OsReleaseLines == <<
    <<"I","D","=","u","b","u","n","t","u">>,
    <<"N","A","M","E","=","\"","U","b","u","n","t","u","\"">>,
    <<"I","D","=","d","e","b","i","a","n">>,
    <<"I","D","_","L","I","K","E","=","\"","d","e","b","i","a","n","\"">>,
    <<"I","D","=","a","r","c","h">>,
    <<"I","D","=","f","e","d","o","r","a">>,
    <<"N","A","M","E","=","\"","R","e","d"," ","H","a","t","\"">>,
    <<"I","D","=","a","l","p","i","n","e">> >>

\* The texts made of at most n of these lines, in the order of the table,
\* each line ended by a newline.
RECURSIVE TextsFrom(_, _)
TextsFrom(i, n) ==
    IF n = 0 \/ i > Len(OsReleaseLines) THEN {<<>>}
    ELSE TextsFrom(i + 1, n)
         \cup {OsReleaseLines[i] \o <<"\n">> \o rest : rest \in TextsFrom(i + 1, n - 1)}

\* What os.path.exists / open / read find at /etc/os-release.
Absent == <<"<absent>">>
Unreadable == <<"<unreadable>">>
OsReleaseStates == {Absent, Unreadable} \cup TextsFrom(1, MaxLines)

\* os.environ.get("PREFIX", "")
TermuxRoot == <<"/data/data/com.termux/files/usr">>
PrefixValues == {<<>>, TermuxRoot, TermuxRoot \o <<"/", "local">>, <<"/", "usr">>}

\* The package-manager binaries detect_os probes for.
Managers == {S("apt-get"), S("pacman"), S("dnf"), S("yum"), S("pkg")}

\* str.replace('"', '')
Unquote(data) == SelectSeq(data, LAMBDA c : c # "\"")

\* The value detect_os returns.
Detected(os_id, pkg, install_cmd, update_cmd) ==
    [os_id |-> os_id, pkg |-> pkg, install_cmd |-> install_cmd, update_cmd |-> update_cmd]

\* The update command of the apt family (lines 87, 92, 115, 125), against
\* the same command without its -y.
apt_update_without_yes == <<S("apt-get"), S("update")>>

apt_update == <<S("apt-get"), S("update"), S("-y")>>

AptFamily(os_id) == Detected(os_id, S("apt"), <<S("apt-get"), S("install"), S("-y")>>, apt_update)

Pacman == Detected(S("arch"), S("pacman"), <<S("pacman"), S("-S"), S("--noconfirm")>>,
                   <<S("pacman"), S("-Sy"), S("--noconfirm")>>)

Dnf == Detected(S("redhat"), S("dnf"), <<S("dnf"), S("install"), S("-y")>>,
                <<S("dnf"), S("makecache"), S("--refresh"), S("-y")>>)

Yum == Detected(S("redhat"), S("yum"), <<S("yum"), S("install"), S("-y")>>,
                <<S("yum"), S("makecache"), S("-y")>>)

Termux == Detected(S("termux"), S("pkg"), <<S("pkg"), S("install"), S("-y")>>,
                   <<S("pkg"), S("update"), S("-y")>>)

Unknown == Detected(S("unknown"), None, None, None)

\* line 70 against a test of the PREFIX variable alone
IsTermux_PrefixOnly(e) == StartsWith(e.PREFIX, TermuxRoot)

\* line 70: the Termux marker
IsTermux(e) == StartsWith(e.PREFIX, TermuxRoot) \/ e.termux_dir

\* lines 78-117: what the OS descriptor decides
FromOsRelease(e) ==
    IF e.os_release \in {Absent, Unreadable} THEN Unknown
    ELSE LET data == Lower(e.os_release)
             has(w) == Contains(data, w)
         IN  IF has(<<"u","b","u","n","t","u">>) THEN AptFamily(S("ubuntu"))
             ELSE IF has(<<"d","e","b","i","a","n">>) /\ ~has(<<"u","b","u","n","t","u">>)
                  THEN AptFamily(S("debian"))
             ELSE IF has(<<"a","r","c","h">>) THEN Pacman
             ELSE IF \/ has(<<"f","e","d","o","r","a">>)
                     \/ has(<<"r","h","e","l">>)
                     \/ has(<<"c","e","n","t","o","s">>)
                     \/ has(<<"r","e","d"," ","h","a","t">>)
                  THEN (IF Which(S("dnf")) THEN Dnf ELSE Yum)
             ELSE IF \/ has(<<"i","d","_","l","i","k","e","=","d","e","b","i","a","n">>)
                     \/ Contains(Unquote(data),
                                 <<"i","d","_","l","i","k","e","=","d","e","b","i","a","n">>)
                  THEN AptFamily(S("debian-like"))
             ELSE Unknown

\* lines 119-145: the search path decides
FromSearchPath(found) ==
    IF found.pkg # None THEN found
    ELSE IF Which(S("apt-get"))
         THEN AptFamily(IF found.os_id # S("unknown") THEN found.os_id ELSE S("debian-like"))
    ELSE IF Which(S("pacman")) THEN Pacman
    ELSE IF Which(S("dnf")) THEN Dnf
    ELSE IF Which(S("yum")) THEN Yum
    ELSE IF Which(S("pkg")) THEN Termux
    ELSE found

detect_os(e) == IF IsTermux(e) THEN Termux ELSE FromSearchPath(FromOsRelease(e))

\* lines 160-180
pkg_name_for_bin(bin_name, pkg_manager) ==
    IF pkg_manager \in {S("apt"), S("pkg")}
    THEN (IF bin_name = S("ndiff") THEN S("nmap") ELSE bin_name)
    ELSE IF pkg_manager = S("pacman")
    THEN (IF bin_name = S("xsltproc") THEN S("libxslt")
          ELSE IF bin_name = S("ndiff") THEN S("nmap") ELSE bin_name)
    ELSE IF pkg_manager \in {S("dnf"), S("yum")}
    THEN (IF bin_name = S("xsltproc") THEN S("libxslt")
          ELSE IF bin_name = S("ndiff") THEN S("nmap") ELSE bin_name)
    ELSE bin_name

-----------------------------------------------------------------------------
(* The dependency helper: ensure_tools and attempt_install *)

\* lines 149-158: the required tools shutil.which does not find, in order
MissingOn(p) == SelectSeq(REQUIRED, LAMBDA b : b \notin p)

check_tools == MissingOn(path)

\* One entry of the helper's history: a presence check and what it found
\* missing, a child process and its return code, the OS detection, the
\* manual suggestions and the manager they were printed for.
Event(kind, cmd, rc, missing) == [kind |-> kind, cmd |-> cmd, rc |-> rc, missing |-> missing]

Checked(missing) == Event("check", <<>>, -1, missing)

Ran(cmd, rc) == Event("run", cmd, rc, <<>>)

DetectedOs == Event("detect", <<>>, -1, <<>>)

Suggested(pkg_manager) == Event("suggest", <<pkg_manager>>, -1, <<>>)

\* lines 29-43: the return codes run_cmd can give for a command; 127 when
\* the executable is not found
ReturnCodes(cmd) == IF Which(Head(cmd)) THEN {0, 1} ELSE {127}

\* The search path after an install command ran: any of the required tools
\* may have appeared, whatever the return code; nothing if it did not start.
AfterRun(cmd) == IF Which(Head(cmd)) THEN AfterInstall(path) ELSE {path}

\* lines 199-205: dedupe while preserving order
RECURSIVE Uniq(_)
Uniq(names) ==
    IF names = <<>> THEN <<>>
    ELSE LET front == Uniq(SubSeq(names, 1, Len(names) - 1))
         IN  IF Last(names) \in Range(front) THEN front ELSE Append(front, Last(names))

\* lines 195-207: the install command for the missing tools
InstallCmd(missing, pkg_manager, install_cmd) ==
    install_cmd \o Uniq([i \in 1..Len(missing) |-> pkg_name_for_bin(missing[i], pkg_manager)])

\* line 273 against its weakening that never returns early
AllPresent_Never(missing) == FALSE

AllPresent(missing) == missing = <<>>

\* line 223 against retrying only after a failed first attempt
ShouldRetryWithSudo_OnlyAfterFailure(rc, root) == ~root /\ rc # 0

ShouldRetryWithSudo(rc, root) == ~root

\* lines 227-231 against trusting the return code of the sudo run
SudoInstalled_TrustsReturnCode(rc, still_missing) == rc = 0

SudoInstalled(rc, still_missing) == rc = 0 /\ still_missing = <<>>

DepsFrame == UNCHANGED <<exit_code, setupVars, mainVars, clock, files, dirs, choice,
                         launched, prompts, cmd_in, child, env>>

\* lines 271-277: ensure_tools up to the first presence check
EnsureStart ==
    /\ pc = "deps:start"
    /\ LET missing == check_tools
       IN  /\ dstate' = [dstate EXCEPT !.missing = missing,
                                       !.log = Append(@, Checked(missing)),
                                       !.ret = IF AllPresent(missing) THEN "True" ELSE @]
           /\ pc' = IF AllPresent(missing) THEN "deps:return" ELSE "deps:detect"
           /\ out' = IF AllPresent(missing)
                     THEN <<"[INFO] Checking required tools", "[INFO] All required tools are present">>
                     ELSE <<"[INFO] Checking required tools", "[WARN] Missing tools">>
    /\ UNCHANGED path
    /\ DepsFrame

\* lines 278-279
EnsureDetect ==
    /\ pc = "deps:detect"
    /\ dstate' = [dstate EXCEPT !.os = detect_os(env), !.log = Append(@, DetectedOs)]
    /\ pc' = "deps:attempt"
    /\ out' = <<"[INFO] Detected OS">>
    /\ UNCHANGED path
    /\ DepsFrame

\* lines 184-193: attempt_install up to the update command
AttemptUpdate ==
    /\ pc = "deps:attempt"
    /\ UNCHANGED path
    /\ DepsFrame
    /\ IF dstate.os.pkg = None \/ dstate.os.install_cmd = None
       THEN /\ dstate' = [dstate EXCEPT !.ok = "False"]
            /\ pc' = "deps:after"
            /\ out' = <<"[ERROR] No supported package manager detected">>
       ELSE IF Truthy(dstate.os.update_cmd)
       THEN \E rc \in ReturnCodes(dstate.os.update_cmd) :
            /\ dstate' = [dstate EXCEPT !.log = Append(@, Ran(dstate.os.update_cmd, rc))]
            /\ pc' = "deps:install"
            /\ out' = <<"[INFO] Running update">>
                      \o (IF rc # 0 THEN <<"[WARN] Update command returned">> ELSE <<>>)
       ELSE /\ pc' = "deps:install"
            /\ out' = <<>>
            /\ UNCHANGED dstate

\* lines 195-220 and the test of line 223: the install without sudo and the re-check
AttemptInstall ==
    /\ pc = "deps:install"
    /\ DepsFrame
    /\ LET cmd == InstallCmd(dstate.missing, dstate.os.pkg, dstate.os.install_cmd)
       IN  \E rc \in ReturnCodes(cmd), p \in AfterRun(cmd) :
           LET still_missing == MissingOn(p)
               log == dstate.log \o <<Ran(cmd, rc), Checked(still_missing)>>
               said == <<"[INFO] Trying install">>
                       \o (IF rc = 0 THEN <<"[INFO] Install command finished">>
                           ELSE <<"[WARN] Install without sudo returned">>)
           IN  /\ path' = p
               /\ IF still_missing = <<>>
                  THEN /\ dstate' = [dstate EXCEPT !.log = log, !.ok = "True"]
                       /\ pc' = "deps:after"
                       /\ out' = said \o <<"[INFO] All tools installed successfully.">>
                  ELSE IF ShouldRetryWithSudo(rc, env.root)
                  THEN /\ dstate' = [dstate EXCEPT !.log = log]
                       /\ pc' = "deps:sudo"
                       /\ out' = said
                  ELSE /\ dstate' = [dstate EXCEPT !.log = log, !.ok = "False"]
                       /\ pc' = "deps:after"
                       /\ out' = said \o <<"[INFO] Already running as root">>

\* lines 224-235 and 240: the retry with sudo
AttemptSudo ==
    /\ pc = "deps:sudo"
    /\ DepsFrame
    /\ LET cmd == InstallCmd(dstate.missing, dstate.os.pkg, dstate.os.install_cmd)
           sudo_cmd == <<S("sudo")>> \o cmd
       IN  \E rc \in ReturnCodes(sudo_cmd), p \in AfterRun(sudo_cmd) :
           LET still_missing == MissingOn(p)
           IN  /\ path' = p
               /\ pc' = "deps:after"
               /\ dstate' = [dstate EXCEPT
                     !.log = @ \o <<Ran(sudo_cmd, rc)>>
                               \o (IF rc = 0 THEN <<Checked(still_missing)>> ELSE <<>>),
                     !.ok = IF SudoInstalled(rc, still_missing) THEN "True" ELSE "False"]
               /\ out' = <<"[INFO] Retrying with sudo">>
                         \o (IF rc # 0 THEN <<"[ERROR] sudo install failed">>
                             ELSE IF SudoInstalled(rc, still_missing)
                             THEN <<"[INFO] All tools installed successfully (with sudo).">>
                             ELSE <<"[WARN] Still missing after sudo install">>)

\* lines 281-291: ensure_tools after attempt_install returned
EnsureFinish ==
    /\ pc = "deps:after"
    /\ pc' = "deps:return"
    /\ UNCHANGED path
    /\ DepsFrame
    /\ IF dstate.ok = "True"
       THEN /\ dstate' = [dstate EXCEPT !.ret = "True"]
            /\ out' = <<>>
       ELSE LET still_missing == check_tools
            IN  IF still_missing # <<>>
                THEN /\ dstate' = [dstate EXCEPT
                          !.log = @ \o <<Checked(still_missing), Suggested(dstate.os.pkg)>>,
                          !.ret = "False"]
                     /\ out' = <<"[ERROR] Could not install", "=== Manual installation suggestions ===">>
                ELSE /\ dstate' = [dstate EXCEPT !.log = Append(@, Checked(still_missing)),
                                                 !.ret = "True"]
                     /\ out' = <<>>

\* lines 808-810: the --test-deps entry turns the result into the exit status
TestDepsExit ==
    /\ pc = "deps:return"
    /\ pc' = "exit"
    /\ exit_code' = IF dstate.ret = "True" THEN 0 ELSE 2
    /\ out' = <<>>
    /\ UNCHANGED <<path, setupVars, mainVars, clock, files, dirs, choice,
                   launched, prompts, cmd_in, child, env, dstate>>

\* The helper's locals before ensure_tools runs, and an environment for the
\* runs that do not use the helper.
NoDeps == [missing |-> <<>>, os |-> Unknown, ok |-> "none", ret |-> "none", log |-> <<>>]

NoEnv == [PREFIX |-> <<>>, termux_dir |-> FALSE, os_release |-> Absent, root |-> FALSE]

-----------------------------------------------------------------------------
(* The interactive program *)

Tools == Range(REQUIRED)

SetupManagers == {S("apt-get"), S("dnf"), S("yum")}

\* The state in which main() reaches its loop at line 743: setup_environment
\* has passed, the sessions root exists, nothing is selected yet.
Init ==
    /\ pc = "main:top"
    /\ exit_code = -1
    /\ path = Tools
    /\ dep_i = Len(dependencies) + 1
    /\ all_deps_met = TRUE
    /\ package_name = None
    /\ checked = [i \in 1..Len(dependencies) |-> "found"]
    /\ current_target = None
    /\ current_ports = None
    /\ current_session = None
    /\ clock = 1
    /\ files = {}
    /\ dirs = {SESSIONS_DIR}
    /\ choice = <<>>
    /\ launched = NoLaunch
    /\ out = <<>>
    /\ prompts = <<>>
    /\ cmd_in = NoCommand
    /\ child = "none"
    /\ env = NoEnv
    /\ dstate = NoDeps

Next ==
    \/ SetTarget
    \/ SetPorts
    \/ SetSession
    \/ RefuseNoTarget
    \/ BasicScan
    \/ CompareScans
    \/ GenerateReport
    \/ EnterAdvanced
    \/ CustomCommand
    \/ ShowHelper
    \/ ExitChoice
    \/ InvalidChoice
    \/ AdvancedScan
    \/ AdvancedBack
    \/ AdvancedInvalid
    \/ HelperStep
    \/ InterruptAtMenu
    \/ InterruptAtPrompt
    \/ InterruptChild
    \/ TopOfLoop
    \/ Tick

Spec == Init /\ [][Next]_vars

-----------------------------------------------------------------------------
(* set_session over the names a user can type *)

\* Session names with path syntax in them, next to a plain one.
PathLikeSessionInputs ==
    { S("alpha"),
      <<"alpha", "/">>,
      <<".", "/", "alpha">>,
      <<"..", "/", "loot">>,
      <<"..">>,
      <<"/", "tmp", "/", "x">>,
      S("beta"),
      <<"alpha", "/", "..", "/", "beta">>,
      <<>> }

SetPathLikeSession == SetSessionFrom(PathLikeSessionInputs)

NextSession ==
    \/ SetPathLikeSession
    \/ TopOfLoop
    \/ InterruptAtMenu

SpecSession == Init /\ [][NextSession]_vars

-----------------------------------------------------------------------------
(* The interactive program's startup: main() up to the loop *)

InitSetup ==
    /\ pc = "setup"
    /\ exit_code = -1
    /\ path \in {t \cup m : t \in SUBSET Tools, m \in SUBSET SetupManagers}
    /\ dep_i = 1
    /\ all_deps_met = TRUE
    /\ package_name = None
    /\ checked = <<>>
    /\ current_target = None
    /\ current_ports = None
    /\ current_session = None
    /\ clock = 1
    /\ files = {}
    /\ dirs = {}
    /\ choice = <<>>
    /\ launched = NoLaunch
    /\ out = <<>>
    /\ prompts = <<>>
    /\ cmd_in = NoCommand
    /\ child = "none"
    /\ env = NoEnv
    /\ dstate = NoDeps

NextSetup ==
    \/ SetupStep
    \/ SetupFinish
    \/ SetupInterrupt

SpecSetup == InitSetup /\ [][NextSetup]_vars

-----------------------------------------------------------------------------
(* The dependency helper run on its own: redeye.py --test-deps *)

\* The environments the helper is run in.
DepsManagers == {S("apt-get"), S("dnf"), S("sudo")}

DepsOsReleases == {Absent, OsReleaseLines[6] \o <<"\n">>}

InitDeps ==
    /\ pc = "deps:start"
    /\ exit_code = -1
    /\ path \in {t \cup m : t \in SUBSET Tools, m \in SUBSET DepsManagers}
    /\ dep_i = 1
    /\ all_deps_met = TRUE
    /\ package_name = None
    /\ checked = <<>>
    /\ current_target = None
    /\ current_ports = None
    /\ current_session = None
    /\ clock = 1
    /\ files = {}
    /\ dirs = {}
    /\ choice = <<>>
    /\ launched = NoLaunch
    /\ out = <<>>
    /\ prompts = <<>>
    /\ cmd_in = NoCommand
    /\ child = "none"
    /\ env \in [PREFIX : {<<>>}, termux_dir : BOOLEAN, os_release : DepsOsReleases,
                root : BOOLEAN]
    /\ dstate = NoDeps

NextDeps ==
    \/ EnsureStart
    \/ EnsureDetect
    \/ AttemptUpdate
    \/ AttemptInstall
    \/ AttemptSudo
    \/ EnsureFinish
    \/ TestDepsExit

SpecDeps == InitDeps /\ [][NextDeps]_vars

-----------------------------------------------------------------------------
(* detect_os over the environments it can be called in *)

\* ensure_tools calls detect_os after its first check found tools missing.
InitDetect ==
    /\ pc = "deps:detect"
    /\ exit_code = -1
    /\ path \in SUBSET Managers
    /\ dep_i = 1
    /\ all_deps_met = TRUE
    /\ package_name = None
    /\ checked = <<>>
    /\ current_target = None
    /\ current_ports = None
    /\ current_session = None
    /\ clock = 1
    /\ files = {}
    /\ dirs = {}
    /\ choice = <<>>
    /\ launched = NoLaunch
    /\ out = <<"[INFO] Checking required tools", "[WARN] Missing tools">>
    /\ prompts = <<>>
    /\ cmd_in = NoCommand
    /\ child = "none"
    /\ env \in [PREFIX : PrefixValues, termux_dir : BOOLEAN, os_release : OsReleaseStates,
                root : {FALSE}]
    /\ dstate = [NoDeps EXCEPT !.missing = REQUIRED, !.log = <<Checked(REQUIRED)>>]

NextDetect == EnsureDetect

SpecDetect == InitDetect /\ [][NextDetect]_vars

-----------------------------------------------------------------------------
(* Properties of the interactive program (checked under Spec) *)

\* A session is active.
SessionActive == current_session # None /\ current_session # <<>>

\* A target is set.
TargetSet == current_target # None /\ current_target # <<>>

\* The directory of the active session, and the files it lists as '.xml'.
SessionDir == SESSIONS_DIR \o <<"/">> \o current_session

SessionXml == {f \in files : Dirname(f) = SessionDir /\ Last(f) = ".xml"}

\* A real scan: first argument 'nmap', neither '-sn' nor '-sL' among the arguments.
RealScan(argv) ==
    /\ argv # <<>>
    /\ argv[1] = S("nmap")
    /\ \A i \in 1..Len(argv) : argv[i] # S("-sn") /\ argv[i] # S("-sL")

\* The base 'scan_<timestamp>' inside the session directory, at the current second.
ScanBase == SessionDir \o <<"/", "scan_", Stamp[clock]>>

\* C1: whatever argument list a step hands to run_command, the child is
\* launched with exactly '-oN <base>.nmap -oX <base>.xml' appended (same
\* base scan_<timestamp> in the session directory) when a session is active
\* and the list is a real scan, and with the list unchanged in every other case.
C1_RealScanGetsOutputFlags ==
    cmd_in # NoCommand =>
        launched = IF SessionActive /\ RealScan(cmd_in)
                   THEN cmd_in \o <<S("-oN"), ScanBase \o <<".nmap">>,
                                    S("-oX"), ScanBase \o <<".xml">> >>
                   ELSE cmd_in

\* C1 witness: a real scan was run with a session active and got the four arguments.
C1_Witness ==
    /\ SessionActive
    /\ RealScan(cmd_in)
    /\ Len(launched) = Len(cmd_in) + 4
    /\ launched[Len(launched)] = ScanBase \o <<".xml">>

\* An nmap invocation, possibly through sudo, that is neither a discovery
\* ('-sn') nor a list ('-sL') scan.
LiveHostScan(argv) ==
    /\ argv # <<>>
    /\ \/ argv[1] = S("nmap")
       \/ argv[1] = S("sudo") /\ Len(argv) >= 2 /\ argv[2] = S("nmap")
    /\ \A i \in 1..Len(argv) : argv[i] # S("-sn") /\ argv[i] # S("-sL")

\* argv has the option opt followed by a path inside the session directory.
HasOutputInto(argv, opt) ==
    \E i \in 1..(Len(argv) - 1) :
        /\ argv[i] = S(opt)
        /\ StartsWith(argv[i + 1], SessionDir \o <<"/">>)

\* C2 (as claimed): with a session active, every live-host scan launched from
\* the main or the advanced menu, the sudo-prefixed ones included, carries
\* output-file flags pointing into the session directory.
C2_EveryLiveScanSaved ==
    (SessionActive /\ LiveHostScan(launched)) =>
        (HasOutputInto(launched, "-oN") /\ HasOutputInto(launched, "-oX"))

\* The choices that require a target.
ScanRequiring == {S("3"), S("4"), S("5"), S("6"), S("7"), S("11")}

\* C3: a scan-requiring choice (3, 4, 5, 6, 7, 11) made at the main menu while
\* no target is set is refused with a message: nothing is launched, the
\* advanced menu is not entered, target, ports and session are unchanged.
C3_NoTargetRefused ==
    [][ (pc = "main" /\ ~TargetSet /\ choice' \in ScanRequiring) =>
            /\ pc' = "main:top"
            /\ out' = <<"No target has been set.">>
            /\ launched' = NoLaunch
            /\ current_target' = current_target
            /\ current_ports' = current_ports
            /\ current_session' = current_session ]_vars

\* C3 witness: the advanced menu was asked for with no target set, and refused.
C3_Witness ==
    /\ pc = "main:top"
    /\ choice = S("11")
    /\ ~TargetSet
    /\ out = <<"No target has been set.">>

\* typed is a number n with 1 <= n <= count.
ListedNumber(typed, count) == \E n \in 1..count : Strip(typed) = S(ToString(n))

\* C4 (as claimed): in compare_scans and generate_report a selection is
\* accepted only when it is a number between 1 and the number of listed
\* files; any other input is reported as invalid and launches nothing.
C4_OnlyListedNumbersAccepted ==
    (pc = "main:top" /\ choice \in {S("9"), S("10")} /\ prompts # <<>>) =>
        IF \A i \in 1..Len(prompts) : ListedNumber(prompts[i].typed, Cardinality(SessionXml))
        THEN launched # NoLaunch
        ELSE launched = NoLaunch /\ Last(out) = "Invalid selection."

\* C5: ndiff is launched only with a session active whose directory lists at
\* least two '.xml' files; with no session, or fewer than two such files,
\* choice 9 prints a message, prompts for nothing and launches nothing.
C5_CompareNeedsTwoScans ==
    /\ (launched # NoLaunch /\ launched[1] = S("ndiff")) =>
            (SessionActive /\ Cardinality(SessionXml) >= 2)
    /\ (pc = "main:top" /\ choice = S("9")
            /\ (~SessionActive \/ Cardinality(SessionXml) < 2)) =>
            (launched = NoLaunch /\ prompts = <<>> /\ out # <<>>)

\* C5 witness: comparison asked for with exactly one '.xml' file in the session.
C5_Witness ==
    /\ pc = "main:top"
    /\ choice = S("9")
    /\ SessionActive
    /\ Cardinality(SessionXml) = 1
    /\ launched = NoLaunch

-----------------------------------------------------------------------------
(* Properties of the dependency helper (checked under SpecDeps) *)

\* ensure_tools has returned.
Returned == pc \in {"deps:return", "exit"}

\* attempt_install has returned.
Attempted == pc \in {"deps:after", "deps:return", "exit"} /\ dstate.ok # "none"

\* The positions in the history of the child processes and of the presence checks.
RunsAt == {i \in DOMAIN dstate.log : dstate.log[i].kind = "run"}

ChecksAt == {i \in DOMAIN dstate.log : dstate.log[i].kind = "check"}

\* The positions of the install invocations: the runs other than the update.
InstallsAt == {i \in RunsAt : dstate.log[i].cmd # dstate.os.update_cmd}

Max(set) == CHOOSE m \in set : \A n \in set : n <= m

\* C6: when nmap, ndiff and xsltproc are all on the search path as
\* ensure_tools is entered, its first step returns True and the history
\* holds the one presence check only: no OS detection, no update command,
\* no install command.
C6_AllPresentReturnsAtOnce ==
    [][(pc = "deps:start" /\ Range(REQUIRED) \subseteq path)
         => /\ pc' = "deps:return"
            /\ dstate'.ret = "True"
            /\ \A i \in DOMAIN dstate'.log : dstate'.log[i].kind = "check"
            /\ Len(dstate'.log) = 1]_vars

\* C6 witness: ensure_tools has returned True with all three tools present
\* and a package manager on the path that it never ran.
C6_Witness ==
    /\ pc = "deps:return"
    /\ Range(REQUIRED) \subseteq path
    /\ S("apt-get") \in path
    /\ dstate.ret = "True"
    /\ dstate.log = <<Checked(<<>>)>>

\* C7: once ensure_tools has returned, it returned True only if the last
\* presence check of the history found nothing missing, and if it returned
\* False the manual suggestions were printed (as the last thing it did, for
\* the manager it detected).
C7_TrueOnlyAfterCleanCheck ==
    Returned =>
        /\ dstate.ret \in {"True", "False"}
        /\ dstate.ret = "True" =>
              /\ ChecksAt # {}
              /\ dstate.log[Max(ChecksAt)].missing = <<>>
        /\ dstate.ret = "False" =>
              /\ dstate.log # <<>>
              /\ Last(dstate.log) = Suggested(dstate.os.pkg)

\* C7 witness: the sudo install returned 0 and a tool is still missing, so
\* ensure_tools returned False after printing the suggestions.
C7_Witness ==
    /\ Returned
    /\ dstate.ret = "False"
    /\ \E i \in RunsAt : /\ Head(dstate.log[i].cmd) = S("sudo")
                         /\ dstate.log[i].rc = 0
    /\ Last(dstate.log).kind = "suggest"

\* C8: once attempt_install has returned with a package manager detected,
\* the history holds one install run without sudo, made of the install
\* prefix and package names, directly followed by a presence check; a
\* second install run exists exactly when that check found a tool missing
\* and the caller is not root, whatever the first run's return code; it
\* comes after the check and is the first command with 'sudo' prepended.
\* With no package manager nothing is run.
C8_SudoRetryAfterRecheck ==
    Attempted =>
        IF dstate.os.pkg = None
        THEN RunsAt = {}
        ELSE \E i \in InstallsAt :
               /\ Head(dstate.log[i].cmd) # S("sudo")
               /\ StartsWith(dstate.log[i].cmd, dstate.os.install_cmd)
               /\ Len(dstate.log[i].cmd) > Len(dstate.os.install_cmd)
               /\ i + 1 \in ChecksAt
               /\ IF dstate.log[i + 1].missing # <<>> /\ ~env.root
                  THEN /\ InstallsAt = {i, i + 2}
                       /\ dstate.log[i + 2].cmd = <<S("sudo")>> \o dstate.log[i].cmd
                  ELSE InstallsAt = {i}

\* C8 witness: the install without sudo returned 0, a tool was still
\* missing, and the same command was run again under sudo.
C8_Witness ==
    /\ Attempted
    /\ \E i \in InstallsAt :
         /\ dstate.log[i].rc = 0
         /\ i + 2 \in InstallsAt
         /\ dstate.log[i + 2].cmd = <<S("sudo")>> \o dstate.log[i].cmd

-----------------------------------------------------------------------------
(* Properties of detect_os (checked under SpecDetect) *)

\* detect_os has been called and its result stored.
DetectionDone == pc = "deps:attempt"

\* The OS descriptor is readable and its content contains "ubuntu".
UbuntuDescriptor ==
    /\ env.os_release \notin {Absent, Unreadable}
    /\ Contains(env.os_release, <<"u","b","u","n","t","u">>)

\* C9 as stated: for every OS-descriptor content containing "ubuntu",
\* detect_os yields the apt manager with update command 'apt-get update'
\* and install prefix 'apt-get install -y'.
C9_UbuntuYieldsAptGetUpdate ==
    (DetectionDone /\ UbuntuDescriptor) =>
        /\ dstate.os.pkg = S("apt")
        /\ dstate.os.update_cmd = <<S("apt-get"), S("update")>>
        /\ dstate.os.install_cmd = <<S("apt-get"), S("install"), S("-y")>>

\* C9 amended: for every readable OS-descriptor content containing
\* "ubuntu", when no Termux marker is present (PREFIX variable or marker
\* directory), detect_os yields os id 'ubuntu' and the apt manager with
\* update command 'apt-get update -y' and install prefix
\* 'apt-get install -y'.
C9_UbuntuYieldsAptUnlessTermux ==
    (DetectionDone /\ UbuntuDescriptor
       /\ ~StartsWith(env.PREFIX, TermuxRoot) /\ ~env.termux_dir) =>
        /\ dstate.os.os_id = S("ubuntu")
        /\ dstate.os.pkg = S("apt")
        /\ dstate.os.update_cmd = <<S("apt-get"), S("update"), S("-y")>>
        /\ dstate.os.install_cmd = <<S("apt-get"), S("install"), S("-y")>>

\* C9 witness: detection ran on a descriptor that names ubuntu and debian,
\* with pacman but not apt-get on the search path and no Termux marker.
C9_Witness ==
    /\ DetectionDone
    /\ UbuntuDescriptor
    /\ Contains(env.os_release, <<"d","e","b","i","a","n">>)
    /\ ~StartsWith(env.PREFIX, TermuxRoot) /\ ~env.termux_dir
    /\ S("pacman") \in path /\ S("apt-get") \notin path
    /\ dstate.os.pkg = S("apt")

-----------------------------------------------------------------------------
(* Properties of the package tables (checked under SpecSetup) *)

\* The last step of setup_environment looked a package up and asked to install it.
LookedUp == pc = "setup" /\ prompts # <<>>

\* C10: every package-name lookup resolves ndiff to 'nmap' under apt and
\* pacman and xsltproc to 'libxslt' under pacman, dnf and yum, both in
\* pkg_name_for_bin and in the table install_dependency uses at startup.
C10_ToolsResolveToPackages ==
    /\ pkg_name_for_bin(S("ndiff"), S("apt")) = S("nmap")
    /\ pkg_name_for_bin(S("ndiff"), S("pacman")) = S("nmap")
    /\ \A m \in {S("pacman"), S("dnf"), S("yum")} :
          pkg_name_for_bin(S("xsltproc"), m) = S("libxslt")
    /\ LookedUp =>
          LET tool == dependencies[dep_i - 1]
          IN  /\ (tool = S("ndiff") /\ InstallManager = S("apt-get"))
                    => package_name = S("nmap")
              /\ (tool = S("xsltproc") /\ InstallManager \in {S("dnf"), S("yum")})
                    => package_name = S("libxslt")

-----------------------------------------------------------------------------
(* Properties of interrupts (checked under SpecSetup and Spec) *)

\* Ctrl-C was pressed during the last step.
Interrupted == "^C" \in Range(out)

\* C11 (as claimed): an interrupt delivered at any point of an interactive
\* run, the startup dependency check included, ends the process with status
\* 0 and the cancellation message, never with a traceback.
C11_InterruptExitsCleanly ==
    Interrupted =>
        /\ pc = "exit"
        /\ exit_code = 0
        /\ "Operation cancelled by user. Exiting RedEye." \in Range(out)
        /\ "KeyboardInterrupt" \notin Range(out)

-----------------------------------------------------------------------------
(* Properties of the main loop's error handling (checked under Spec) *)

\* The program is in the loop of main(), a sub-menu included.
InLoop == pc \in {"main", "main:top", "adv", "adv:top", "helper", "helper:top"}

\* The diagnostics of a child process that could not be started.
LaunchDiagnostics == {"An error occurred", "An unexpected error occurred"}

-----------------------------------------------------------------------------
(* Properties of the startup dependency check (checked under SpecSetup) *)

\* A menu has been or is being shown.
MenuReached == pc \in {"main", "main:top", "adv", "adv:top", "helper", "helper:top"}

\* The last presence check of some dependency did not find it.
SomeToolMissing == \E i \in DOMAIN checked : checked[i] = "missing"

\* C13: the menu loop is reached only after every one of nmap, ndiff and
\* xsltproc was found by the last presence check made for it; and a run in
\* which the last check of some tool did not find it never shows a menu and,
\* once it has ended, has ended with a non-zero status.
C13_MenuOnlyWithAllTools ==
    /\ MenuReached =>
          /\ Len(checked) = Len(dependencies)
          /\ \A i \in DOMAIN checked : checked[i] = "found"
    /\ SomeToolMissing =>
          /\ ~MenuReached
          /\ pc = "exit" => exit_code # 0
          /\ (pc = "setup" /\ dep_i > Len(dependencies)) => ~all_deps_met

\* C13 witness: ndiff was missing, its install was accepted and reported
\* success, the check made again did not find it, and the process ended
\* with status 1.
C13_Witness ==
    /\ pc = "exit"
    /\ exit_code = 1
    /\ Len(checked) = Len(dependencies)
    /\ checked[2] = "missing"
    /\ S("nmap") \in path /\ S("apt-get") \in path
    /\ package_name # None

-----------------------------------------------------------------------------
(* Properties of the exploit-script gate (checked under Spec) *)

\* The argument list holds '--script' directly followed by 'exploit'.
HasScriptExploit(argv) ==
    \E i \in 1..(Len(argv) - 1) : argv[i] = S("--script") /\ argv[i + 1] = S("exploit")

\* The last step was advanced choice 15 and its prompt was answered `answer`.
ExploitAsked(answer) ==
    /\ pc = "adv:top"
    /\ choice = S("15")
    /\ prompts = <<Asked("Are you sure?", answer)>>

\* The answer is 'yes' in some letter case, with nothing around it.
SaysYes(answer) == answer \in {S("yes"), S("YES"), S("Yes")}

\* C14 (as claimed): a launched argument list holds '--script exploit' only
\* after advanced choice 15 was confirmed with 'yes' (any letter case); any
\* other answer to that prompt launches nothing.
C14_ExploitOnlyAfterYes ==
    /\ HasScriptExploit(launched) => \E answer \in SureInputs :
                                        ExploitAsked(answer) /\ SaysYes(answer)
    /\ \A answer \in SureInputs :
          (ExploitAsked(answer) /\ ~SaysYes(answer)) => launched = NoLaunch

\* C14 amended: among the built-in scans (main choices 3-7, advanced choices
\* 1-20) only advanced choice 15, confirmed with 'yes' in any letter case,
\* launches an argument list holding '--script exploit', and any other
\* answer launches nothing; the custom command (main choice 12) launches
\* the words the user typed, '--script exploit' included, unconfirmed.
C14_ExploitOnlyAfterYesOrTyped ==
    /\ HasScriptExploit(launched) =>
          \/ \E answer \in SureInputs : ExploitAsked(answer) /\ SaysYes(answer)
          \/ /\ pc = "main:top"
             /\ choice = S("12")
             /\ \E typed \in CustomInputs :
                   /\ prompts = <<Asked("Enter full nmap command", typed)>>
                   /\ HasScriptExploit(Split(typed))
    /\ \A answer \in SureInputs :
          (ExploitAsked(answer) /\ ~SaysYes(answer)) => launched = NoLaunch

\* C14 witness: choice 15 was answered 'YES' and the exploit scan launched.
C14_Witness ==
    /\ ExploitAsked(S("YES"))
    /\ HasScriptExploit(launched)
    /\ Head(launched) = S("sudo")

-----------------------------------------------------------------------------
(* Properties of session directories (checked under SpecSession and Spec) *)

\* The directory set_session binds a name to.
DirOf(name) == Resolve(PathJoin(SESSIONS_DIR, name))

\* A directory below the sessions root.
InsideSessionsRoot(d) ==
    /\ ~IsAbsolute(d)
    /\ Len(Components(d)) > 1
    /\ Head(Components(d)) = SESSIONS_DIR

\* C15 (as claimed): the directory of every accepted session name lies
\* inside 'redeye_sessions', also for names with '..', separators or an
\* absolute path in them, and two different accepted names (the session
\* that was active and the one accepted after it) never address the same
\* directory.
C15_SessionsInsideRootOneToOne ==
    /\ [](SessionActive => InsideSessionsRoot(DirOf(current_session)))
    /\ [][(SessionActive /\ SessionActive' /\ current_session' # current_session)
             => DirOf(current_session') # DirOf(current_session)]_vars

\* The last step was set_session, asked for from the main menu, and the
\* user typed `typed`.
SessionAsked(typed) ==
    /\ pc = "main:top"
    /\ choice = S("8")
    /\ prompts = <<Asked("Enter session name", typed)>>

\* C16: in every state in which a session is active its directory exists;
\* a step of set_session leaves a session active only under the stripped
\* name typed and with its directory in existence, leaves none for an empty
\* name or when the directory could not be created (saying so), and always
\* succeeds for a name whose directory exists already.
C16_ActiveSessionHasDirectory ==
    /\ [](SessionActive => DirOf(current_session) \in dirs)
    /\ [][\A typed \in SessionInputs :
            SessionAsked(typed)' =>
               LET name == Strip(typed)
               IN  /\ SessionActive' => (current_session' = name /\ DirOf(name) \in dirs')
                   /\ name = <<>> => current_session' = None
                   /\ (name # <<>> /\ DirOf(name) \in dirs) => current_session' = name
                   /\ (name # <<>> /\ ~SessionActive')
                         => /\ current_session' = None
                            /\ DirOf(name) \notin dirs'
                            /\ out' = <<"Failed to create session directory">>
         ]_vars

\* C16 witness: a session that already holds scan output was set again,
\* typed with blanks around its name, and is active.
C16_Witness ==
    /\ SessionAsked(<<" ", "alpha", " ">>)
    /\ current_session = S("alpha")
    /\ SessionXml # {}
    /\ DirOf(current_session) \in dirs

-----------------------------------------------------------------------------
(* Properties of the target's lifecycle (checked under Spec) *)

\* C17 (as claimed): once a target is set no step of the run, entering an
\* empty string at choice 1 included, takes the state back to 'no target
\* set'; the target only changes to another non-empty value.
C17_TargetNeverCleared ==
    [][TargetSet => (TargetSet' /\ current_target' # <<>>)]_vars

-----------------------------------------------------------------------------
(* Properties of scan artifacts (checked under Spec) *)

\* C18 (as claimed): no invocation is given output files that an earlier
\* invocation of the run already wrote, so no existing
\* 'scan_<timestamp>.nmap/.xml' pair is overwritten, two scans started
\* within the same clock second included.
C18_ScanFilesNeverReused ==
    [][launched' # NoLaunch => OutputFiles(launched') \cap files = {}]_vars

-----------------------------------------------------------------------------
(* Properties of detect_os's priority order (checked under SpecDetect) *)

\* The lower-cased OS descriptor, empty when it is absent or unreadable.
DescriptorText ==
    IF env.os_release \in {Absent, Unreadable} THEN <<>> ELSE Lower(env.os_release)

\* The descriptor names one of the words.
Names(words) == \E w \in words : Contains(DescriptorText, w)

UbuntuWords == {<<"u","b","u","n","t","u">>}

DebianWords == {<<"d","e","b","i","a","n">>}

ArchWords == {<<"a","r","c","h">>}

RedhatWords == {<<"f","e","d","o","r","a">>, <<"r","h","e","l">>,
                <<"c","e","n","t","o","s">>, <<"r","e","d"," ","h","a","t">>}

\* The first of the managers, in the order given, that is on the search path.
RECURSIVE FirstOnPath(_)
FirstOnPath(order) ==
    IF order = <<>> THEN None
    ELSE IF Head(order) \in path THEN Head(order) ELSE FirstOnPath(Tail(order))

\* The package manager of a binary.
ManagerOf(bin) == IF bin = S("apt-get") THEN S("apt") ELSE bin

\* C19: detect_os resolves by first match: a Termux marker (PREFIX or the
\* marker directory) gives 'pkg' whatever the descriptor says; else the
\* descriptor decides in the order ubuntu, debian, arch, redhat family; else
\* (descriptor absent, unreadable or naming none of them) the first of
\* apt-get, pacman, dnf, yum, pkg on the search path; else the result is
\* ('unknown', None, None, None).  The manager is None exactly when the
\* install command is None and exactly when the update command is None.
C19_DetectionByPriority ==
    DetectionDone =>
        LET os == dstate.os
        IN  /\ os.pkg =
                 IF StartsWith(env.PREFIX, TermuxRoot) \/ env.termux_dir THEN S("pkg")
                 ELSE IF Names(UbuntuWords) THEN S("apt")
                 ELSE IF Names(DebianWords) THEN S("apt")
                 ELSE IF Names(ArchWords) THEN S("pacman")
                 ELSE IF Names(RedhatWords)
                      THEN (IF S("dnf") \in path THEN S("dnf") ELSE S("yum"))
                 ELSE ManagerOf(FirstOnPath(<<S("apt-get"), S("pacman"), S("dnf"),
                                              S("yum"), S("pkg")>>))
            /\ os.os_id =
                 IF StartsWith(env.PREFIX, TermuxRoot) \/ env.termux_dir THEN S("termux")
                 ELSE IF Names(UbuntuWords) THEN S("ubuntu")
                 ELSE IF Names(DebianWords) THEN S("debian")
                 ELSE IF Names(ArchWords) THEN S("arch")
                 ELSE IF Names(RedhatWords) THEN S("redhat")
                 ELSE CASE os.pkg = S("apt") -> S("debian-like")
                        [] os.pkg = S("pacman") -> S("arch")
                        [] os.pkg \in {S("dnf"), S("yum")} -> S("redhat")
                        [] os.pkg = S("pkg") -> S("termux")
                        [] OTHER -> S("unknown")
            /\ (os.pkg = None) <=> (os.install_cmd = None)
            /\ (os.pkg = None) <=> (os.update_cmd = None)
            /\ os.pkg = None => os = Unknown
            /\ os.pkg # None =>
                  Head(os.install_cmd) = (IF os.pkg = S("apt") THEN S("apt-get") ELSE os.pkg)

\* C19 witness: no Termux marker, a descriptor that names arch and fedora,
\* apt-get on the search path: the descriptor's first match, pacman, wins.
C19_Witness ==
    /\ DetectionDone
    /\ ~StartsWith(env.PREFIX, TermuxRoot) /\ ~env.termux_dir
    /\ Names(ArchWords) /\ Names(RedhatWords)
    /\ S("apt-get") \in path
    /\ dstate.os.pkg = S("pacman")

-----------------------------------------------------------------------------
(* Properties of report generation (checked under Spec) *)

\* The last step asked xsltproc for a report.
ReportAsked == launched # NoLaunch /\ Head(launched) = S("xsltproc")

\* C20 (as claimed): generate_report asks xsltproc for an HTML sibling of
\* the selected file: '-o', an output path in the directory of the XML
\* source, with the source's base name and '.html' in place of its final
\* '.xml', then the path of the XML source itself, a listed file of the
\* active session; also when the session name contains '.xml'.
C20_ReportIsHtmlSibling ==
    ReportAsked =>
        LET html_path == launched[3]
            xml_path == launched[4]
        IN  /\ Len(launched) = 4
            /\ launched[2] = S("-o")
            /\ xml_path \in SessionXml
            /\ Dirname(html_path) = Dirname(xml_path)
            /\ Basename(html_path) =
                  SubSeq(Basename(xml_path), 1, Len(Basename(xml_path)) - 1) \o <<".html">>

====
